---- MODULE Spec2Model ----
(***************************************************************************)
(* A model of goenum: the EnumSet registry (Register, GetByName,           *)
(* GetByValue, Contains, Values) and the DynamicEnumLoader that populates  *)
(* it (validateEnumDefinition, handleDuplicate, LoadFromSlice,             *)
(* LoadFromReader, LoadFromDirectory).                                     *)
(*                                                                         *)
(* A Go value of type interface{} is a record [t |-> type, v |-> payload]: *)
(* two interface values are equal (and collide as map keys) exactly when   *)
(* both the dynamic type and the payload are equal.  A float64 carries its *)
(* payload in tenths (10 is 1.0, 15 is 1.5); a string carries the index of *)
(* the string.                                                             *)
(***************************************************************************)
EXTENDS Integers, Sequences, FiniteSets, TLC

\* ------------------------------------------------------------------ bounds
\* longest slice of definitions handed to LoadFromSlice
MaxBatch == 2

\* most files in a directory handed to LoadFromDirectory
MaxFiles == 2

\* most EnumBase objects the program constructs
MaxObjs == 2

\* most UnmarshalJSON calls the program makes
MaxDecodes == 1

\* longest name of a composite enumerator the program still combines
MaxNameLen == 3

\* ------------------------------------------------------------ value domain
Nil == [t |-> "nil", v |-> 0]

IntV(n) == [t |-> "int", v |-> n]

StrV(k) == [t |-> "string", v |-> k]

FloatV(tenths) == [t |-> "float64", v |-> tenths]

\* a bool carries 1 for true and 0 for false
BoolV(b) == [t |-> "bool", v |-> IF b THEN 1 ELSE 0]

\* the names of the model: an upper-case name, the same name in lower case,
\* and the empty name
Names == {"A", "a", ""}

\* the values a caller puts in an EnumDefinition or an EnumBase
Vals == {IntV(1), StrV(1), Nil}

\* strings.ToUpper over the alphabet of the model
ToUpper(s) == IF s = "a" THEN "A" ELSE IF s = "b" THEN "B" ELSE s

\* strings.EqualFold over the alphabet of the model
EqualFold(s, t) == ToUpper(s) = ToUpper(t)

Range(f) == {f[x] : x \in DOMAIN f}

MapPut(f, k, x) == [y \in DOMAIN f \cup {k} |-> IF y = k THEN x ELSE f[y]]

\* --------------------------------------------------------------- EnumBase
\* NewEnumBase / the composite literal &EnumBase{...} of the loader
NewEnumBase(value, name, description, aliases) ==
  [name |-> name, value |-> value, description |-> description,
   aliases |-> aliases, jsonConfig |-> "JSONFormatName"]

\* the zero value of T (a nil Enum) that GetByName and GetByValue return
\* together with exists = FALSE
ZeroEnum ==
  [name |-> "", value |-> Nil, description |-> "", aliases |-> <<>>,
   jsonConfig |-> "nil"]

String(e) == e.name

Value(e) == e.value

HasAlias(e, alias) == \E i \in DOMAIN e.aliases : EqualFold(e.aliases[i], alias)

\* ---------------------------------------------------------------- EnumSet
NewEnumSet == [values |-> <<>>, byValue |-> <<>>]

\* Register without the duplicate-value check
Register_NoValueCheck(es, enum) ==
  IF String(enum) \in DOMAIN es.values
    THEN [es |-> es, panic |-> "duplicate enum name"]
  ELSE [es |-> [values |-> MapPut(es.values, String(enum), enum),
                byValue |-> MapPut(es.byValue, Value(enum), enum)],
        panic |-> "none"]

\* Register writing the name index before it checks the value
Register_NameFirst(es, enum) ==
  IF String(enum) \in DOMAIN es.values
    THEN [es |-> es, panic |-> "duplicate enum name"]
  ELSE IF Value(enum) \in DOMAIN es.byValue
    THEN [es |-> [values |-> MapPut(es.values, String(enum), enum),
                  byValue |-> es.byValue],
          panic |-> "duplicate enum value"]
  ELSE [es |-> [values |-> MapPut(es.values, String(enum), enum),
                byValue |-> MapPut(es.byValue, Value(enum), enum)],
        panic |-> "none"]

\* Register: panics before it writes anything, so a rejected call leaves
\* the set as it was
Register(es, enum) ==
  LET name == String(enum)
      value == Value(enum)
  IN IF name \in DOMAIN es.values
       THEN [es |-> es, panic |-> "duplicate enum name"]
     ELSE IF value \in DOMAIN es.byValue
       THEN [es |-> es, panic |-> "duplicate enum value"]
     ELSE [es |-> [values |-> MapPut(es.values, name, enum),
                   byValue |-> MapPut(es.byValue, value, enum)],
           panic |-> "none"]

\* GetByName scanning the aliases before it looks the name up
GetByName_AliasFirst(es, name) ==
  LET m == {e \in Range(es.values) : HasAlias(e, name)}
  IN IF m # {} THEN {[enum |-> e, exists |-> TRUE] : e \in m}
     ELSE IF ToUpper(name) \in DOMAIN es.values
       THEN {[enum |-> es.values[ToUpper(name)], exists |-> TRUE]}
     ELSE {[enum |-> ZeroEnum, exists |-> FALSE]}

\* GetByName: the set of results a call can return; the alias scan ranges
\* over a Go map, whose iteration order is not fixed
GetByName(es, name) ==
  IF ToUpper(name) \in DOMAIN es.values
    THEN {[enum |-> es.values[ToUpper(name)], exists |-> TRUE]}
  ELSE LET m == {e \in Range(es.values) : HasAlias(e, name)}
       IN IF m # {} THEN {[enum |-> e, exists |-> TRUE] : e \in m}
          ELSE {[enum |-> ZeroEnum, exists |-> FALSE]}

GetByValue(es, value) ==
  IF value \in DOMAIN es.byValue
    THEN [enum |-> es.byValue[value], exists |-> TRUE]
  ELSE [enum |-> ZeroEnum, exists |-> FALSE]

\* Values: the registered enumerators (in no fixed order)
Values(es) == Range(es.values)

\* Contains looking the enumerator up by its value
Contains_ByValue(es, enum) == Value(enum) \in DOMAIN es.byValue

Contains(es, enum) == String(enum) \in DOMAIN es.values

\* the rest of a registration loop, r being the outcome of its last Register
RECURSIVE RegisterAll(_, _)
RegisterRest(r, rest) ==
  IF r.panic # "none" THEN r ELSE RegisterAll(r.es, rest)

\* the loop "for _, enum := range ...Values() { newSet.Register(enum) }" over
\* the enumerators enums, in the order the range yields them
RegisterAll(es, enums) ==
  IF enums = {} THEN [es |-> es, panic |-> "none"]
  ELSE RegisterRest(Register(es, CHOOSE x \in enums : TRUE),
                    enums \ {CHOOSE x \in enums : TRUE})

\* ------------------------------------------------------ DynamicEnumLoader
DuplicateHandlings == {"DuplicateError", "DuplicateSkip", "DuplicateOverride"}

\* reflect.Type values the model sets as ValidationOptions.ValueType
\* ("none" is the nil Type: no restriction)
ValueTypes == {"none", "int"}

ValidationOptions ==
  [DuplicateHandling : DuplicateHandlings, ValueType : ValueTypes,
   AllowEmptyNames : BOOLEAN, AllowEmptyValues : BOOLEAN]

DefaultValidationOptions ==
  [DuplicateHandling |-> "DuplicateError", ValueType |-> "none",
   AllowEmptyNames |-> FALSE, AllowEmptyValues |-> FALSE]

\* EnumDefinition records of the model (description and aliases empty)
EnumDefinition(name, value) ==
  [name |-> name, value |-> value, description |-> "", aliases |-> <<>>]

Defs == {EnumDefinition(n, v) : n \in Names, v \in Vals}

\* reflect.TypeOf(v).AssignableTo(T) for the concrete types of the model
AssignableTo(valueType, T) == valueType = T

\* validateEnumDefinition checking the value before the name
validateEnumDefinition_ValueFirst(opts, def) ==
  IF ~opts.AllowEmptyValues /\ def.value = Nil
    THEN "enum value cannot be nil"
  ELSE IF ~opts.AllowEmptyNames /\ def.name = ""
    THEN "enum name cannot be empty"
  ELSE IF opts.ValueType # "none" /\ def.value # Nil
          /\ ~(def.value.t = opts.ValueType)
    THEN "enum value type is not assignable to expected type"
  ELSE "nil"

\* validateEnumDefinition: "nil" or the error of the first failing check
validateEnumDefinition(opts, def) ==
  IF ~opts.AllowEmptyNames /\ def.name = ""
    THEN "enum name cannot be empty"
  ELSE IF ~opts.AllowEmptyValues /\ def.value = Nil
    THEN "enum value cannot be nil"
  ELSE IF opts.ValueType # "none" /\ def.value # Nil
          /\ ~AssignableTo(def.value.t, opts.ValueType)
    THEN "enum value type is not assignable to expected type"
  ELSE "nil"

\* l.enumSet = newSet after the rebuild loop with outcome r; a panic inside
\* the loop leaves l.enumSet as it was
AssignRebuilt(es, r) ==
  IF r.panic # "none" THEN [es |-> es, panic |-> r.panic] ELSE r

\* the loop "for enum in Values(): if enum.String() != name: Register(enum)"
\* on a fresh set, followed by l.enumSet = newSet
RebuildWithout(es, name) ==
  AssignRebuilt(es, RegisterAll(NewEnumSet, {e \in Values(es) : String(e) # name}))

\* handleDuplicate returning nil after the rebuild with outcome r
ReturnNil(r) == [es |-> r.es, err |-> "nil", panic |-> r.panic]

\* handleDuplicate: the switch on the policy; it does not look at the set
\* under DuplicateError and DuplicateSkip
handleDuplicate(es, opts, name, value) ==
  IF opts.DuplicateHandling = "DuplicateError"
    THEN [es |-> es, err |-> "duplicate enum found", panic |-> "none"]
  ELSE IF opts.DuplicateHandling = "DuplicateSkip"
    THEN [es |-> es, err |-> "nil", panic |-> "none"]
  ELSE IF \E g \in GetByName(es, name) : g.exists
    THEN ReturnNil(RebuildWithout(es, name))
  ELSE [es |-> es, err |-> "nil", panic |-> "none"]

\* the outcome of a load call: the set the loader holds when the call ends,
\* the error it returned ("nil" for none), the panic that ended it ("none"
\* for none) and the index of the definition it ended at (0 for a call that
\* ran through)
Outcome(es, err, panic, idx) ==
  [es |-> es, err |-> err, panic |-> panic, idx |-> idx]

\* LoadFromSlice from definition i on
RECURSIVE LoadFromSliceFrom(_, _, _, _)

\* ... after l.enumSet.Register(enum), or the skipped registration, with
\* outcome r
SliceRegistered(r, opts, defs, i) ==
  IF r.panic # "none" THEN Outcome(r.es, "nil", r.panic, i)
  ELSE LoadFromSliceFrom(r.es, opts, defs, i + 1)

\* ... after the Override rebuild with outcome o: build the EnumBase and
\* register it "if we're not skipping"
SliceRebuilt(o, opts, defs, i) ==
  IF o.panic # "none" THEN Outcome(o.es, "nil", o.panic, i)
  ELSE SliceRegistered(
         IF opts.DuplicateHandling # "DuplicateSkip"
            \/ ~Contains(o.es, NewEnumBase(defs[i].value, defs[i].name,
                                           defs[i].description, defs[i].aliases))
           THEN Register(o.es, NewEnumBase(defs[i].value, defs[i].name,
                                           defs[i].description, defs[i].aliases))
         ELSE [es |-> o.es, panic |-> "none"],
         opts, defs, i)

\* ... after handleDuplicate with outcome h
SliceHandled(h, opts, defs, i) ==
  IF h.panic # "none" THEN Outcome(h.es, "nil", h.panic, i)
  ELSE IF h.err # "nil"
    THEN IF opts.DuplicateHandling = "DuplicateError"
           THEN Outcome(h.es, h.err, "none", i)
         ELSE LoadFromSliceFrom(h.es, opts, defs, i + 1)
  ELSE SliceRebuilt(
         IF opts.DuplicateHandling = "DuplicateOverride"
           THEN RebuildWithout(h.es, defs[i].name)
         ELSE [es |-> h.es, panic |-> "none"],
         opts, defs, i)

\* ... after validateEnumDefinition with result verr
SliceValidated(verr, es, opts, defs, i) ==
  IF verr # "nil" THEN Outcome(es, verr, "none", i)
  ELSE SliceHandled(handleDuplicate(es, opts, defs[i].name, defs[i].value),
                    opts, defs, i)

\* LoadFromSlice dropping, under DuplicateSkip, a definition that fails
\* validation and going on with the batch
LoadFromSliceFrom_SkipInvalid(es, opts, defs, i) ==
  IF i > Len(defs) THEN Outcome(es, "nil", "none", 0)
  ELSE IF opts.DuplicateHandling = "DuplicateSkip"
          /\ validateEnumDefinition(opts, defs[i]) # "nil"
    THEN LoadFromSliceFrom(es, opts, defs, i + 1)
  ELSE SliceValidated(validateEnumDefinition(opts, defs[i]), es, opts, defs, i)

LoadFromSliceFrom(es, opts, defs, i) ==
  IF i > Len(defs) THEN Outcome(es, "nil", "none", 0)
  ELSE SliceValidated(validateEnumDefinition(opts, defs[i]), es, opts, defs, i)

\* LoadFromSlice putting the set back as it was when it returns an error
LoadFromSlice_Rollback(es, opts, defs) ==
  LET r == LoadFromSliceFrom(es, opts, defs, 1)
  IN IF r.err # "nil" THEN Outcome(es, r.err, r.panic, r.idx) ELSE r

LoadFromSlice(es, opts, defs) == LoadFromSliceFrom(es, opts, defs, 1)

\* LoadFromMap from definition i on, defs being the definitions of the map
\* in the order the range over the map yields them
RECURSIVE LoadFromMapFrom(_, _, _, _)

\* ... after l.enumSet.Register(enum) with outcome r
MapRegistered(r, opts, defs, i) ==
  IF r.panic # "none" THEN Outcome(r.es, "nil", r.panic, i)
  ELSE LoadFromMapFrom(r.es, opts, defs, i + 1)

\* ... after handleDuplicate with outcome h
MapHandled(h, opts, defs, i) ==
  IF h.panic # "none" THEN Outcome(h.es, "nil", h.panic, i)
  ELSE IF h.err # "nil"
    THEN IF opts.DuplicateHandling = "DuplicateError"
           THEN Outcome(h.es, h.err, "none", i)
         ELSE LoadFromMapFrom(h.es, opts, defs, i + 1)
  ELSE MapRegistered(
         Register(h.es, NewEnumBase(defs[i].value, defs[i].name,
                                    defs[i].description, defs[i].aliases)),
         opts, defs, i)

\* ... after validateEnumDefinition with result verr
MapValidated(verr, es, opts, defs, i) ==
  IF verr # "nil" THEN Outcome(es, verr, "none", i)
  ELSE MapHandled(handleDuplicate(es, opts, defs[i].name, defs[i].value),
                  opts, defs, i)

LoadFromMapFrom(es, opts, defs, i) ==
  IF i > Len(defs) THEN Outcome(es, "nil", "none", 0)
  ELSE MapValidated(validateEnumDefinition(opts, defs[i]), es, opts, defs, i)

LoadFromMap(es, opts, defs) == LoadFromMapFrom(es, opts, defs, 1)

\* ------------------------------------------------------------ file loading
\* the values encoding/json decodes into an interface{}: every number is a
\* float64
JsonVals == {FloatV(10), StrV(1), Nil}

JsonDefs == {EnumDefinition(n, v) : n \in Names, v \in JsonVals}

\* int(f) of a float64: truncation toward zero (payload in tenths)
IntOfFloat(value) == IntV(value.v \div 10)

\* what a reader yields: text that json.Decoder cannot decode into
\* []EnumDefinition, or the definitions it decodes to
Malformed == [kind |-> "malformed", defs |-> <<>>]

Json(defs) == [kind |-> "json", defs |-> defs]

\* a file that os.Open cannot open
Unreadable == [kind |-> "unreadable", defs |-> <<>>]

\* LoadFromReader from definition i on
RECURSIVE LoadFromReaderFrom(_, _, _, _)

\* ... after l.enumSet.Register(enum) with outcome r
ReaderRegistered(r, opts, defs, i) ==
  IF r.panic # "none" THEN Outcome(r.es, "nil", r.panic, i)
  ELSE LoadFromReaderFrom(r.es, opts, defs, i + 1)

\* "Convert float64 to int if necessary"
ConvertFloat(value) ==
  IF value.t = "float64" THEN IntOfFloat(value) ELSE value

\* ... after handleDuplicate with outcome h
ReaderHandled(h, opts, defs, i) ==
  IF h.panic # "none" THEN Outcome(h.es, "nil", h.panic, i)
  ELSE IF h.err # "nil"
    THEN IF opts.DuplicateHandling = "DuplicateError"
           THEN Outcome(h.es, h.err, "none", i)
         ELSE LoadFromReaderFrom(h.es, opts, defs, i + 1)
  ELSE ReaderRegistered(
         Register(h.es, NewEnumBase(ConvertFloat(defs[i].value), defs[i].name,
                                    defs[i].description, defs[i].aliases)),
         opts, defs, i)

\* ... after validateEnumDefinition with result verr
ReaderValidated(verr, es, opts, defs, i) ==
  IF verr # "nil" THEN Outcome(es, verr, "none", i)
  ELSE ReaderHandled(handleDuplicate(es, opts, defs[i].name, defs[i].value),
                     opts, defs, i)

\* LoadFromReader converting the number before it validates the definition
LoadFromReaderFrom_ConvertFirst(es, opts, defs, i) ==
  IF i > Len(defs) THEN Outcome(es, "nil", "none", 0)
  ELSE ReaderValidated(
         validateEnumDefinition(opts, [defs[i] EXCEPT !.value = ConvertFloat(@)]),
         es, opts, defs, i)

LoadFromReaderFrom(es, opts, defs, i) ==
  IF i > Len(defs) THEN Outcome(es, "nil", "none", 0)
  ELSE ReaderValidated(validateEnumDefinition(opts, defs[i]), es, opts, defs, i)

LoadFromReader(es, opts, reader) ==
  IF reader.kind # "json" THEN Outcome(es, "failed to decode JSON", "none", 0)
  ELSE LoadFromReaderFrom(es, opts, reader.defs, 1)

\* LoadFromJSON: open the file, then LoadFromReader
LoadFromJSON(es, opts, file) ==
  IF file.kind = "unreadable" THEN Outcome(es, "failed to open file", "none", 0)
  ELSE LoadFromReader(es, opts, file)

\* the outcome of LoadFromDirectory also names the file the call ended at
\* (0 for a call that ran through, or that read no file)
DirOutcome(es, err, panic, idx, file) ==
  [es |-> es, err |-> err, panic |-> panic, idx |-> idx, file |-> file]

\* the loop of LoadFromDirectory from file k on
RECURSIVE LoadFromDirectoryFrom(_, _, _, _)

\* ... after l.LoadFromJSON(file) with outcome r
DirLoaded(r, opts, files, k) ==
  IF r.panic # "none" \/ r.err # "nil"
    THEN DirOutcome(r.es, r.err, r.panic, r.idx, k)
  ELSE LoadFromDirectoryFrom(r.es, opts, files, k + 1)

LoadFromDirectoryFrom(es, opts, files, k) ==
  IF k > Len(files) THEN DirOutcome(es, "nil", "none", 0, 0)
  ELSE DirLoaded(LoadFromJSON(es, opts, files[k]), opts, files, k)

\* LoadFromDirectory: dir.exists is what os.Stat finds, dir.files the *.json
\* files filepath.Glob lists, in the order it lists them
LoadFromDirectory(es, opts, dir) ==
  IF ~dir.exists
    THEN DirOutcome(es, "directory does not exist", "none", 0, 0)
  ELSE IF Len(dir.files) = 0
    THEN DirOutcome(es, "no JSON files found in directory", "none", 0, 0)
  ELSE LoadFromDirectoryFrom(es, opts, dir.files, 1)

\* ------------------------------------------------------- EnumBase as JSON
\* the text of the string a StrV carries, and back
StrText(k) == IF k = 1 THEN "A" ELSE IF k = 2 THEN "a" ELSE ""

StrIndex(s) == IF s = "A" THEN 1 ELSE IF s = "a" THEN 2 ELSE 0

\* a map[string]interface{}, as json.Unmarshal builds it from an object
MapV(doc) == [t |-> "map", v |-> doc]

\* JSON texts: text that is no JSON, null, a string, a number (in tenths),
\* a boolean, and the object of the full format (aliases empty: the key is
\* left out)
JBad == [j |-> "malformed"]

JNull == [j |-> "null"]

JStr(s) == [j |-> "string", s |-> s]

JNum(tenths) == [j |-> "number", n |-> tenths]

JBool(b) == [j |-> "bool", b |-> b]

JObj(name, value, description, aliases) ==
  [j |-> "object", name |-> name, value |-> value,
   description |-> description, aliases |-> aliases]

\* json.Marshal of an interface{} value
MarshalValue(value) ==
  IF value.t = "nil" THEN JNull
  ELSE IF value.t = "int" THEN JNum(10 * value.v)
  ELSE IF value.t = "float64" THEN JNum(value.v)
  ELSE IF value.t = "string" THEN JStr(StrText(value.v))
  ELSE IF value.t = "bool" THEN JBool(value.v = 1)
  ELSE value.v

\* json.Unmarshal of valid JSON into an interface{}
UnmarshalValue(doc) ==
  IF doc.j = "null" THEN Nil
  ELSE IF doc.j = "string" THEN StrV(StrIndex(doc.s))
  ELSE IF doc.j = "number" THEN FloatV(doc.n)
  ELSE IF doc.j = "bool" THEN BoolV(doc.b)
  ELSE MapV(doc)

\* the formats an EnumJSONConfig names; "nil" is a nil *EnumJSONConfig
JSONFormats == {"JSONFormatName", "JSONFormatValue", "JSONFormatFull"}

\* A pointer to an EnumBase is 0 (nil) or an index into the heap h; h[p].obj
\* is the object, h[p].names and h[p].vals are the keys of es.values and of
\* es.byValue that hold the pointer, h[p].decoded counts the UnmarshalJSON
\* calls on it.
SetJSONConfig(h, p, config) ==
  IF p = 0 THEN h ELSE [h EXCEPT ![p].obj.jsonConfig = config]

GetJSONConfig(h, p) ==
  IF p = 0 \/ h[p].obj.jsonConfig = "nil" THEN "JSONFormatName"
  ELSE h[p].obj.jsonConfig

\* MarshalJSON: the text written and the error returned
MarshalJSON(h, p) ==
  IF p = 0 THEN [data |-> JStr(""), err |-> "nil"]
  ELSE IF GetJSONConfig(h, p) = "JSONFormatValue"
    THEN [data |-> MarshalValue(Value(h[p].obj)), err |-> "nil"]
  ELSE IF GetJSONConfig(h, p) = "JSONFormatFull"
    THEN [data |-> JObj(h[p].obj.name, MarshalValue(h[p].obj.value),
                        h[p].obj.description, h[p].obj.aliases),
          err |-> "nil"]
  ELSE [data |-> JStr(String(h[p].obj)), err |-> "nil"]

\* "Convert float64 to int if necessary" of UnmarshalJSON
DecodedValue(value) ==
  IF value.t = "float64" THEN IntOfFloat(value) ELSE value

\* UnmarshalJSON in the value format
UnmarshalJSONValue(h, p, data) ==
  IF data.j = "malformed" THEN [h |-> h, err |-> "json: syntax error"]
  ELSE [h |-> [h EXCEPT ![p].obj.value = DecodedValue(UnmarshalValue(data))],
        err |-> "nil"]

\* UnmarshalJSON in the full format keeping the aliases it has when the
\* record has none
UnmarshalJSONFull_KeepAliases(h, p, data) ==
  IF data.j = "malformed" THEN [h |-> h, err |-> "json: syntax error"]
  ELSE IF data.j = "null"
    THEN [h |-> [h EXCEPT ![p].obj.name = "", ![p].obj.value = Nil,
                          ![p].obj.description = ""],
          err |-> "nil"]
  ELSE IF data.j # "object" THEN [h |-> h, err |-> "json: cannot unmarshal"]
  ELSE [h |-> [h EXCEPT ![p].obj.name = data.name,
                        ![p].obj.value = DecodedValue(UnmarshalValue(data.value)),
                        ![p].obj.description = data.description,
                        ![p].obj.aliases =
                          IF data.aliases = <<>> THEN @ ELSE data.aliases],
        err |-> "nil"]

\* UnmarshalJSON in the full format: null decodes to the zero FullEnum, any
\* other JSON that is not an object is a type error
UnmarshalJSONFull(h, p, data) ==
  IF data.j = "malformed" THEN [h |-> h, err |-> "json: syntax error"]
  ELSE IF data.j = "null"
    THEN [h |-> [h EXCEPT ![p].obj.name = "", ![p].obj.value = Nil,
                          ![p].obj.description = "", ![p].obj.aliases = <<>>],
          err |-> "nil"]
  ELSE IF data.j # "object" THEN [h |-> h, err |-> "json: cannot unmarshal"]
  ELSE [h |-> [h EXCEPT ![p].obj.name = data.name,
                        ![p].obj.value = DecodedValue(UnmarshalValue(data.value)),
                        ![p].obj.description = data.description,
                        ![p].obj.aliases = data.aliases],
        err |-> "nil"]

\* UnmarshalJSON in the name format assigning the local name before it
\* looks at the error
UnmarshalJSONName_AssignFirst(h, p, data) ==
  IF data.j = "malformed"
    THEN [h |-> [h EXCEPT ![p].obj.name = ""], err |-> "json: syntax error"]
  ELSE IF data.j = "null" THEN [h |-> [h EXCEPT ![p].obj.name = ""], err |-> "nil"]
  ELSE IF data.j # "string"
    THEN [h |-> [h EXCEPT ![p].obj.name = ""], err |-> "json: cannot unmarshal"]
  ELSE [h |-> [h EXCEPT ![p].obj.name = data.s], err |-> "nil"]

\* UnmarshalJSON in the name format: null leaves the local name empty, any
\* other JSON that is not a string is a type error
UnmarshalJSONName(h, p, data) ==
  IF data.j = "malformed" THEN [h |-> h, err |-> "json: syntax error"]
  ELSE IF data.j = "null" THEN [h |-> [h EXCEPT ![p].obj.name = ""], err |-> "nil"]
  ELSE IF data.j # "string" THEN [h |-> h, err |-> "json: cannot unmarshal"]
  ELSE [h |-> [h EXCEPT ![p].obj.name = data.s], err |-> "nil"]

\* UnmarshalJSON parsing the text before it looks at the receiver
UnmarshalJSON_ParseFirst(h, p, data) ==
  IF data.j = "malformed" THEN [h |-> h, err |-> "json: syntax error"]
  ELSE IF p = 0 THEN [h |-> h, err |-> "cannot unmarshal into nil EnumBase"]
  ELSE IF GetJSONConfig(h, p) = "JSONFormatValue" THEN UnmarshalJSONValue(h, p, data)
  ELSE IF GetJSONConfig(h, p) = "JSONFormatFull" THEN UnmarshalJSONFull(h, p, data)
  ELSE UnmarshalJSONName(h, p, data)

\* UnmarshalJSON: the heap after the call and the error returned
UnmarshalJSON(h, p, data) ==
  IF p = 0 THEN [h |-> h, err |-> "cannot unmarshal into nil EnumBase"]
  ELSE IF GetJSONConfig(h, p) = "JSONFormatValue" THEN UnmarshalJSONValue(h, p, data)
  ELSE IF GetJSONConfig(h, p) = "JSONFormatFull" THEN UnmarshalJSONFull(h, p, data)
  ELSE UnmarshalJSONName(h, p, data)

\* the registry as a lookup sees it: every key with the object its pointer
\* points to now
Seen(h) ==
  [values |->
     [n \in UNION {h[p].names : p \in DOMAIN h} |->
        h[CHOOSE p \in DOMAIN h : n \in h[p].names].obj],
   byValue |->
     [v \in UNION {h[p].vals : p \in DOMAIN h} |->
        h[CHOOSE p \in DOMAIN h : v \in h[p].vals].obj]]

\* ------------------------------------------------------------ ExportToJSON
\* every order in which a range over a map can yield the elements of S
Orders(S) == {f \in [1..Cardinality(S) -> S] : Range(f) = S}

\* json.Marshal of an EnumDefinition (name, value and description always
\* written)
MarshalDefinition(def) ==
  JObj(def.name, MarshalValue(def.value), def.description, def.aliases)

\* ExportToJSON: the arrays the call can write, one for every order in
\* which l.enumSet.Values() can list the enumerators
ExportToJSON(es) ==
  {[i \in DOMAIN order |->
      MarshalDefinition([name |-> String(order[i]), value |-> Value(order[i]),
                         description |-> order[i].description,
                         aliases |-> order[i].aliases])] :
     order \in Orders(Values(es))}

\* the file holding the array text, as json.Decoder decodes it into
\* []EnumDefinition
FileOf(text) ==
  Json([i \in DOMAIN text |->
          [name |-> text[i].name, value |-> UnmarshalValue(text[i].value),
           description |-> text[i].description, aliases |-> text[i].aliases]])

\* ------------------------------------------------------ CompositeEnumBase
\* flags is a uint64, kept as the set of the positions of its 1 bits
Width == 64

Bits == 0..(Width - 1)

U64(bits) == [t |-> "uint64", v |-> bits]

\* a nil *CompositeEnumBase
NilComposite == [nil |-> TRUE, base |-> ZeroEnum, flags |-> {}]

\* &CompositeEnumBase{EnumBase: base, flags: flags}
Composite(base, flags) == [nil |-> FALSE, base |-> base, flags |-> flags]

\* a CompositeEnum interface value: absent (nil), a *CompositeEnumBase
\* (which can be a nil pointer), or a value of another implementation
AbsentIface == [kind |-> "nil", ptr |-> NilComposite]

Iface(c) == [kind |-> "*CompositeEnumBase", ptr |-> c]

OtherImpl == [kind |-> "other", ptr |-> NilComposite]

\* 1 << uint(n) as a uint64: a shift count of Width or more, which a
\* negative n converts to, gives 0
ShiftOne(n) == IF n \in Bits THEN {n} ELSE {}

\* NewCompositeEnumBase taking the shift count modulo the width
NewCompositeEnumBase_ShiftModulo(value, name, description, aliases) ==
  LET flags == IF value.t = "uint64" THEN value.v
               ELSE IF value.t = "int" THEN {value.v % Width}
               ELSE {}
  IN Composite(NewEnumBase(U64(flags), name, description, aliases), flags)

NewCompositeEnumBase(value, name, description, aliases) ==
  LET flags == IF value.t = "uint64" THEN value.v
               ELSE IF value.t = "int" THEN ShiftOne(value.v)
               ELSE {}
  IN Composite(NewEnumBase(U64(flags), name, description, aliases), flags)

\* String of a *CompositeEnumBase, promoted from the embedded *EnumBase
CompositeString(c) == String(c.base)

\* the result of a call that ran to its return, and of one that ended in a
\* nil pointer dereference
Returned(out) == [out |-> out, panic |-> "none"]

NilDereference == [out |-> NilComposite, panic |-> "nil pointer dereference"]

\* Or returning the flags of the right operand alone
Or_RightOnly(e, other) ==
  IF e.nil \/ other.kind = "nil" THEN Returned(e)
  ELSE IF other.kind # "*CompositeEnumBase" THEN Returned(e)
  ELSE IF other.ptr.nil THEN NilDereference
  ELSE Returned(Composite(
         NewEnumBase(U64(other.ptr.flags),
                     e.base.name \o "|" \o CompositeString(other.ptr),
                     e.base.description, <<>>),
         other.ptr.flags))

Or(e, other) ==
  IF e.nil \/ other.kind = "nil" THEN Returned(e)
  ELSE IF other.kind # "*CompositeEnumBase" THEN Returned(e)
  ELSE IF other.ptr.nil THEN NilDereference
  ELSE Returned(Composite(
         NewEnumBase(U64(e.flags \cup other.ptr.flags),
                     e.base.name \o "|" \o CompositeString(other.ptr),
                     e.base.description, <<>>),
         e.flags \cup other.ptr.flags))

And(e, other) ==
  IF e.nil \/ other.kind = "nil" THEN Returned(e)
  ELSE IF other.kind # "*CompositeEnumBase" THEN Returned(e)
  ELSE IF other.ptr.nil THEN NilDereference
  ELSE Returned(Composite(
         NewEnumBase(U64(e.flags \cap other.ptr.flags),
                     e.base.name \o "&" \o CompositeString(other.ptr),
                     e.base.description, <<>>),
         e.flags \cap other.ptr.flags))

Xor(e, other) ==
  IF e.nil \/ other.kind = "nil" THEN Returned(e)
  ELSE IF other.kind # "*CompositeEnumBase" THEN Returned(e)
  ELSE IF other.ptr.nil THEN NilDereference
  ELSE Returned(Composite(
         NewEnumBase(U64((e.flags \ other.ptr.flags) \cup (other.ptr.flags \ e.flags)),
                     e.base.name \o "^" \o CompositeString(other.ptr),
                     e.base.description, <<>>),
         (e.flags \ other.ptr.flags) \cup (other.ptr.flags \ e.flags)))

\* Not naming its result as its operand
Not_KeepName(e) ==
  IF e.nil THEN Returned(e)
  ELSE Returned(Composite(
         NewEnumBase(U64(Bits \ e.flags), e.base.name, e.base.description, <<>>),
         Bits \ e.flags))

Not(e) ==
  IF e.nil THEN Returned(e)
  ELSE Returned(Composite(
         NewEnumBase(U64(Bits \ e.flags), "~" \o e.base.name,
                     e.base.description, <<>>),
         Bits \ e.flags))

\* HasFlag: the bool returned
HasFlag(e, flag) ==
  IF e.nil \/ flag.kind = "nil" THEN Returned(FALSE)
  ELSE IF flag.kind # "*CompositeEnumBase" THEN Returned(FALSE)
  ELSE IF flag.ptr.nil THEN [out |-> FALSE, panic |-> "nil pointer dereference"]
  ELSE Returned(e.flags \cap flag.ptr.flags = flag.ptr.flags)

\* Value of a *CompositeEnumBase
CompositeValue(e) == IF e.nil THEN Nil ELSE U64(e.flags)

\* ------------------------------------------------------------------ state
\* enumSet: the loader's l.enumSet (the registry), options: l.options,
\* last: the call that has just returned (op = "none" between calls), with
\* its arguments, the set before it and its outcome,
\* heap: the EnumBase objects the program holds pointers to,
\* comp: the *CompositeEnumBase the program holds
VARIABLES enumSet, options, last, heap, comp

vars == <<enumSet, options, last, heap, comp>>

\* every sequence over S of length at most n
SeqsUpTo(S, n) == UNION {[1..k -> S] : k \in 0..n}

\* the files of the model's directories: unreadable, malformed, empty
\* array, or an array of one definition
Files == {Unreadable, Malformed, Json(<<>>)} \cup {Json(<<d>>) : d \in JsonDefs}

NoDir == [exists |-> FALSE, files |-> <<>>]

Dirs == {NoDir} \cup {[exists |-> TRUE, files |-> fs] : fs \in SeqsUpTo(Files, MaxFiles)}

NoCall ==
  [op |-> "none", enum |-> ZeroEnum, defs |-> <<>>, dir |-> NoDir,
   pre |-> NewEnumSet, err |-> "nil", panic |-> "none", idx |-> 0, file |-> 0,
   reader |-> Json(<<>>), ref |-> 0, recv |-> 0, arg |-> 0, out |-> 0]

\* NewDynamicEnumLoader(options): an empty set and the caller's options
Init ==
  /\ enumSet = NewEnumSet
  /\ options \in ValidationOptions
  /\ last = NoCall
  /\ heap = <<>>
  /\ comp = NilComposite

\* a call, call naming it and its arguments, ends with outcome r: the
\* loader holds r.es, and the call, the set before it and its outcome are
\* on record
Called(call, r) ==
  /\ enumSet' = r.es
  /\ last' = [call EXCEPT !.pre = enumSet,
                          !.err = IF "err" \in DOMAIN r THEN r.err ELSE "nil",
                          !.panic = r.panic,
                          !.idx = IF "idx" \in DOMAIN r THEN r.idx ELSE 0,
                          !.file = IF "file" \in DOMAIN r THEN r.file ELSE 0]
  /\ UNCHANGED <<options, heap, comp>>

\* a direct call l.GetEnumSet().Register(enum)
RegisterCall ==
  /\ last.op = "none"
  /\ \E n \in Names, v \in Vals :
       Called([NoCall EXCEPT !.op = "Register",
                             !.enum = NewEnumBase(v, n, "", <<>>)],
              Register(enumSet, NewEnumBase(v, n, "", <<>>)))

\* a call l.LoadFromSlice(defs)
LoadFromSliceCall ==
  /\ last.op = "none"
  /\ \E defs \in SeqsUpTo(Defs, MaxBatch) :
       Called([NoCall EXCEPT !.op = "LoadFromSlice", !.defs = defs],
              LoadFromSlice(enumSet, options, defs))

\* a call l.LoadFromDirectory(dir)
LoadFromDirectoryCall ==
  /\ last.op = "none"
  /\ \E dir \in Dirs :
       Called([NoCall EXCEPT !.op = "LoadFromDirectory", !.dir = dir],
              LoadFromDirectory(enumSet, options, dir))

\* the caller has taken the outcome of its call (an error value, or a panic
\* it recovered from) and goes on to its next call
Return ==
  /\ last.op # "none"
  /\ last' = NoCall
  /\ UNCHANGED <<enumSet, options, heap, comp>>

Next == RegisterCall \/ LoadFromSliceCall \/ Return

Spec == Init /\ [][Next]_vars

\* the loader fed from slices and from directories, with no type restriction
InitDir ==
  /\ enumSet = NewEnumSet
  /\ options \in {o \in ValidationOptions : o.ValueType = "none"}
  /\ last = NoCall
  /\ heap = <<>>
  /\ comp = NilComposite

NextDir == LoadFromSliceCall \/ LoadFromDirectoryCall \/ Return

SpecDir == InitDir /\ [][NextDir]_vars

\* the registry under direct registrations only
NextReg == RegisterCall \/ Return

SpecReg == Init /\ [][NextReg]_vars

\* the values of the definitions handed to the three entry points
EntryVals == {IntV(1), StrV(1), BoolV(TRUE)}

EntryDefs == {EnumDefinition(n, v) : n \in Names, v \in EntryVals}

\* the values json.Decoder yields for the numbers 1 and 1.5, a string and
\* a boolean
ReaderVals == {FloatV(10), FloatV(15), StrV(1), BoolV(TRUE)}

ReaderDefs == {EnumDefinition(n, v) : n \in Names, v \in ReaderVals}

\* a call l.LoadFromMap(definitions), defs being the definitions of the map
\* in the order the range yields them
LoadFromMapCall ==
  /\ last.op = "none"
  /\ \E defs \in SeqsUpTo(EntryDefs, MaxBatch) :
       Called([NoCall EXCEPT !.op = "LoadFromMap", !.defs = defs],
              LoadFromMap(enumSet, options, defs))

\* a call l.LoadFromReader(reader)
LoadFromReaderCall ==
  /\ last.op = "none"
  /\ \E reader \in {Malformed} \cup {Json(ds) : ds \in SeqsUpTo(ReaderDefs, MaxBatch)} :
       Called([NoCall EXCEPT !.op = "LoadFromReader", !.reader = reader],
              LoadFromReader(enumSet, options, reader))

\* the loader fed from maps and from readers
NextEntry == LoadFromMapCall \/ LoadFromReaderCall \/ Return

SpecEntry == InitDir /\ [][NextEntry]_vars

\* the loader fed from readers, under every ValidationOptions
NextTyped == LoadFromReaderCall \/ Return

SpecTyped == Init /\ [][NextTyped]_vars

\* ------------------------------------------- the program's composite enum
\* what the program passes to NewCompositeEnumBase: bit-masks, bit
\* positions inside and outside the width, and a value of another type
CompInputs ==
  {U64({3}), U64({0, 1}), IntV(0), IntV(1), IntV(63), IntV(64), IntV(0 - 1), StrV(1)}

CompNames == {"A", "B"}

\* the flags the program combines with, as the tests define them
FlagA == NewCompositeEnumBase(IntV(0), "A", "", <<>>)

FlagB == NewCompositeEnumBase(IntV(1), "B", "", <<>>)

FlagC == NewCompositeEnumBase(IntV(2), "C", "", <<>>)

\* the arguments the program passes for a CompositeEnum parameter
CompArgs ==
  {AbsentIface, Iface(NilComposite), OtherImpl, Iface(FlagA), Iface(FlagB), Iface(FlagC)}

InitComp ==
  /\ enumSet = NewEnumSet
  /\ options = DefaultValidationOptions
  /\ last = NoCall
  /\ heap = <<>>
  /\ comp = NilComposite

\* a call on the held composite enumerator ends with outcome r; the program
\* holds comp2 from now on
CalledComp(call, r, comp2) ==
  /\ comp' = comp2
  /\ last' = [call EXCEPT !.recv = comp, !.out = r.out, !.panic = r.panic]
  /\ UNCHANGED <<enumSet, options, heap>>

\* the program holds the result of a call that returned one, and what it
\* held before after a panic
Kept(r) == IF r.panic = "none" THEN r.out ELSE comp

\* comp = NewCompositeEnumBase(value, name, "")
NewCompositeCall ==
  /\ last.op = "none"
  /\ \E value \in CompInputs, name \in CompNames :
       CalledComp([NoCall EXCEPT !.op = "NewCompositeEnumBase", !.arg = value],
                  Returned(NewCompositeEnumBase(value, name, "", <<>>)),
                  NewCompositeEnumBase(value, name, "", <<>>))

\* the program combines names of MaxNameLen characters at most
Combinable == comp.nil \/ Len(comp.base.name) <= MaxNameLen

\* the result r of comp.Or(other), comp.And(other) or comp.Xor(other)
Combined(op, other, r) ==
  CalledComp([NoCall EXCEPT !.op = op, !.arg = other], r, Kept(r))

\* comp = comp.Or(other)
OrCall ==
  /\ last.op = "none" /\ Combinable
  /\ \E other \in CompArgs : Combined("Or", other, Or(comp, other))

\* comp = comp.And(other)
AndCall ==
  /\ last.op = "none" /\ Combinable
  /\ \E other \in CompArgs : Combined("And", other, And(comp, other))

\* comp = comp.Xor(other)
XorCall ==
  /\ last.op = "none" /\ Combinable
  /\ \E other \in CompArgs : Combined("Xor", other, Xor(comp, other))

\* comp = comp.Not()
NotCall ==
  /\ last.op = "none" /\ Combinable
  /\ Combined("Not", AbsentIface, Not(comp))

\* comp.HasFlag(flag)
HasFlagCall ==
  /\ last.op = "none"
  /\ \E flag \in CompArgs :
       CalledComp([NoCall EXCEPT !.op = "HasFlag", !.arg = flag],
                  HasFlag(comp, flag), comp)

NextComp ==
  \/ NewCompositeCall \/ OrCall \/ AndCall \/ XorCall \/ NotCall
  \/ HasFlagCall \/ Return

SpecComp == InitComp /\ [][NextComp]_vars

\* ------------------------------------------------- export and load back
\* the definitions the program loads before it exports
ExportVals == {IntV(1), FloatV(15), StrV(1)}

ExportDefs == {EnumDefinition(n, v) : n \in Names, v \in ExportVals}

\* a call l.LoadFromSlice(defs) with definitions that carry numbers
LoadNumbersCall ==
  /\ last.op = "none"
  /\ \E defs \in SeqsUpTo(ExportDefs, MaxBatch) :
       Called([NoCall EXCEPT !.op = "LoadFromSlice", !.defs = defs],
              LoadFromSlice(enumSet, options, defs))

\* a call l.ExportToJSON(filename), between calls or right after a load
\* (whose definitions and prior set stay on record); the file can be written
ExportToJSONCall ==
  /\ last.op \in {"none", "LoadFromSlice"}
  /\ \E text \in ExportToJSON(enumSet) :
       last' = [last EXCEPT !.op = "ExportToJSON", !.out = text,
                            !.err = "nil", !.panic = "none"]
  /\ UNCHANGED <<enumSet, options, heap, comp>>

\* the fresh loader with the options opts has loaded the exported file,
\* with outcome r; it is the loader of the program from now on
Reloaded(opts, r) ==
  /\ enumSet' = r.es
  /\ options' = opts
  /\ last' = [NoCall EXCEPT !.op = "Reload", !.pre = enumSet,
                            !.reader = FileOf(last.out), !.err = r.err,
                            !.panic = r.panic, !.idx = r.idx]
  /\ UNCHANGED <<heap, comp>>

\* NewDynamicEnumLoader(opts).LoadFromJSON(filename) on the file just
\* exported, opts being the options of the exporting loader with the
\* policy Skip or Override
ReloadCall ==
  /\ last.op = "ExportToJSON"
  /\ \E policy \in {"DuplicateSkip", "DuplicateOverride"} :
       Reloaded([options EXCEPT !.DuplicateHandling = policy],
                LoadFromJSON(NewEnumSet,
                             [options EXCEPT !.DuplicateHandling = policy],
                             FileOf(last.out)))

NextExport == LoadNumbersCall \/ ExportToJSONCall \/ ReloadCall \/ Return

SpecExport == InitDir /\ [][NextExport]_vars

\* ------------------------------------------- the program's own EnumBases
\* what the program passes to NewEnumBase
ObjNames == {"A", "a"}

ObjVals == {IntV(1), StrV(1)}

ObjAliases == {<<>>, <<"a">>}

\* the names the program looks up
Queries == {"A", "a", ""}

\* the texts the program hands to UnmarshalJSON under a format (an object
\* is not handed to the value format)
Docs(format) ==
  {JBad, JNull, JStr("a"), JNum(15)}
    \cup (IF format = "JSONFormatValue" THEN {}
          ELSE {JObj("a", JNum(10), "d", <<>>), JObj("A", JStr("a"), "", <<"A">>)})

\* the UnmarshalJSON calls made on the objects 1..k of the heap
RECURSIVE DecodeCalls(_, _)
DecodeCalls(h, k) == IF k = 0 THEN 0 ELSE h[k].decoded + DecodeCalls(h, k - 1)

InitEnum ==
  /\ enumSet = NewEnumSet
  /\ options = DefaultValidationOptions
  /\ last = NoCall
  /\ heap = <<>>
  /\ comp = NilComposite

\* a call NewEnumBase(value, name, "", aliases...)
NewEnumBaseCall ==
  /\ last.op = "none"
  /\ Len(heap) < MaxObjs
  /\ \E n \in ObjNames, v \in ObjVals, al \in ObjAliases :
       heap' = Append(heap, [obj |-> NewEnumBase(v, n, "", al),
                             names |-> {}, vals |-> {}, decoded |-> 0])
  /\ last' = [NoCall EXCEPT !.op = "NewEnumBase", !.ref = Len(heap) + 1,
                            !.pre = enumSet, !.recv = heap]
  /\ UNCHANGED <<enumSet, options, comp>>

\* a call on the object p ends: the heap is h, the registry shows the
\* objects as they are now, and the call is on record with the heap and the
\* registry before it
CalledOn(call, p, h, err, panic) ==
  /\ heap' = h
  /\ enumSet' = Seen(h)
  /\ last' = [call EXCEPT !.ref = p, !.pre = enumSet, !.recv = heap,
                          !.err = err, !.panic = panic]
  /\ UNCHANGED <<options, comp>>

\* es.Register(p) with outcome r: a registration that went through has put
\* the pointer under the name and the value of the object
Registered(p, r) ==
  CalledOn([NoCall EXCEPT !.op = "RegisterObj", !.enum = heap[p].obj], p,
           IF r.panic # "none" THEN heap
           ELSE [heap EXCEPT ![p].names = @ \cup {String(heap[p].obj)},
                             ![p].vals = @ \cup {Value(heap[p].obj)}],
           "nil", r.panic)

\* a call es.Register(p) with an object of the program
RegisterObjCall ==
  /\ last.op = "none"
  /\ \E p \in DOMAIN heap : Registered(p, Register(enumSet, heap[p].obj))

\* a call p.SetJSONConfig(config)
SetJSONConfigCall ==
  /\ last.op = "none"
  /\ \E p \in 0..Len(heap), config \in JSONFormats :
       CalledOn([NoCall EXCEPT !.op = "SetJSONConfig", !.arg = config], p,
                SetJSONConfig(heap, p, config), "nil", "none")

\* p.UnmarshalJSON(data) with outcome r
Unmarshaled(p, data, r) ==
  CalledOn([NoCall EXCEPT !.op = "UnmarshalJSON", !.arg = data], p,
           IF p = 0 THEN r.h ELSE [r.h EXCEPT ![p].decoded = @ + 1],
           r.err, "none")

\* a call p.UnmarshalJSON(data)
UnmarshalJSONCall ==
  /\ last.op = "none"
  /\ DecodeCalls(heap, Len(heap)) < MaxDecodes
  /\ \E p \in 0..Len(heap) :
       \E data \in Docs(GetJSONConfig(heap, p)) :
         Unmarshaled(p, data, UnmarshalJSON(heap, p, data))

\* p.MarshalJSON() with outcome r
Marshaled(p, r) ==
  /\ last' = [NoCall EXCEPT !.op = "MarshalJSON", !.ref = p, !.pre = enumSet,
                            !.recv = heap, !.out = r.data, !.err = r.err]
  /\ UNCHANGED <<enumSet, options, heap, comp>>

\* a call p.MarshalJSON()
MarshalJSONCall ==
  /\ last.op = "none"
  /\ \E p \in 0..Len(heap) : Marshaled(p, MarshalJSON(heap, p))

\* a call es.GetByName(q) returning one of the results the ranging over the
\* map allows
GetByNameCall ==
  /\ last.op = "none"
  /\ \E q \in Queries :
       \E g \in GetByName(enumSet, q) :
         last' = [NoCall EXCEPT !.op = "GetByName", !.arg = q, !.out = g,
                               !.pre = enumSet, !.recv = heap]
  /\ UNCHANGED <<enumSet, options, heap, comp>>

NextEnum ==
  \/ NewEnumBaseCall \/ RegisterObjCall \/ SetJSONConfigCall
  \/ UnmarshalJSONCall \/ MarshalJSONCall \/ GetByNameCall \/ Return

SpecEnum == InitEnum /\ [][NextEnum]_vars

\* ------------------------------------------------ a pointer to the set
\* GetEnumSet returns the pointer l.enumSet; what that pointer shows after
\* a later l.LoadFromSlice(defs) with outcome r. Under DuplicateOverride
\* the first definition that passes validation makes the loader build a
\* new EnumSet and assign it to l.enumSet before anything is registered,
\* so the EnumSet pointed to stays as it was, es; with no assignment the
\* pointer is still l.enumSet.
\* the pointer following the loader to the set it holds
GetEnumSet_Current(es, opts, defs, r) == r.es

GetEnumSet(es, opts, defs, r) ==
  IF /\ opts.DuplicateHandling = "DuplicateOverride"
     /\ defs # <<>>
     /\ validateEnumDefinition(opts, defs[1]) = "nil"
    THEN es
  ELSE r.es

\* l.LoadFromSlice(defs) with outcome r, after held := l.GetEnumSet()
LoadedHolding(defs, r) ==
  Called([NoCall EXCEPT !.op = "LoadFromSlice", !.defs = defs,
                        !.out = GetEnumSet(enumSet, options, defs, r)], r)

\* the calls held := l.GetEnumSet(); l.LoadFromSlice(defs)
GetEnumSetCall ==
  /\ last.op = "none"
  /\ \E defs \in SeqsUpTo(Defs, MaxBatch) :
       LoadedHolding(defs, LoadFromSlice(enumSet, options, defs))

NextHeld == GetEnumSetCall \/ Return

SpecHeld == Init /\ [][NextHeld]_vars

\* ------------------------------------------------------ shared aliases
\* the names and the aliases of the enumerators registered with aliases,
\* and the names looked up
AliasedNames == {"A", "a"}

AliasLists == {<<>>, <<"b">>, <<"B">>}

AliasQueries == {"b", "A"}

\* a direct call es.Register(NewEnumBase(value, name, "", aliases...))
RegisterAliasedCall ==
  /\ last.op = "none"
  /\ \E n \in AliasedNames, v \in Vals, al \in AliasLists :
       Called([NoCall EXCEPT !.op = "Register",
                             !.enum = NewEnumBase(v, n, "", al)],
              Register(enumSet, NewEnumBase(v, n, "", al)))

\* a call es.GetByName(q) returning one of the results the ranging over the
\* map allows
GetByAliasCall ==
  /\ last.op = "none"
  /\ \E q \in AliasQueries :
       \E g \in GetByName(enumSet, q) :
         last' = [NoCall EXCEPT !.op = "GetByName", !.arg = q, !.out = g,
                               !.pre = enumSet]
  /\ UNCHANGED <<enumSet, options, heap, comp>>

NextAlias == RegisterAliasedCall \/ GetByAliasCall \/ Return

SpecAlias == InitEnum /\ [][NextAlias]_vars

\* ------------------------------------------------- membership questions
\* the descriptions of the enumerators asked about
AskedDescriptions == {"", "d"}

\* a call l.GetEnumSet().Contains(enum) with an enumerator built for it
ContainsCall ==
  /\ last.op = "none"
  /\ \E n \in Names, v \in Vals, d \in AskedDescriptions :
       last' = [NoCall EXCEPT !.op = "Contains", !.pre = enumSet,
                             !.enum = NewEnumBase(v, n, d, <<>>),
                             !.out = Contains(enumSet, NewEnumBase(v, n, d, <<>>))]
  /\ UNCHANGED <<enumSet, options, heap, comp>>

NextContains == RegisterCall \/ ContainsCall \/ Return

SpecContains == InitEnum /\ [][NextContains]_vars

\* ------------------------------------------- encoding and decoding back
\* the values of the enumerators that are encoded
TripVals == {IntV(1), FloatV(15), FloatV(20), StrV(1), BoolV(TRUE), Nil}

\* a call NewEnumBase(value, name, "d", aliases...)
NewEnumOfCall ==
  /\ last.op = "none"
  /\ Len(heap) < MaxObjs
  /\ \E n \in ObjNames, v \in TripVals, al \in ObjAliases :
       heap' = Append(heap, [obj |-> NewEnumBase(v, n, "d", al),
                             names |-> {}, vals |-> {}, decoded |-> 0])
  /\ last' = [NoCall EXCEPT !.op = "NewEnumBase", !.ref = Len(heap) + 1,
                            !.pre = enumSet, !.recv = heap]
  /\ UNCHANGED <<enumSet, options, comp>>

\* p.UnmarshalJSON(data) with outcome r, data being the text written for
\* the object from
UnmarshaledEncoded(p, from, data, r) ==
  CalledOn([NoCall EXCEPT !.op = "UnmarshalJSON", !.arg = data, !.idx = from],
           p, [r.h EXCEPT ![p].decoded = @ + 1], r.err, "none")

\* a call p.UnmarshalJSON(data) with the text the MarshalJSON call on
\* record has written
UnmarshalEncodedCall ==
  /\ last.op = "MarshalJSON" /\ last.err = "nil"
  /\ DecodeCalls(heap, Len(heap)) < MaxDecodes
  /\ \E p \in DOMAIN heap :
       UnmarshaledEncoded(p, last.ref, last.out, UnmarshalJSON(heap, p, last.out))

NextTrip ==
  \/ NewEnumOfCall \/ SetJSONConfigCall \/ MarshalJSONCall
  \/ UnmarshalEncodedCall \/ Return

SpecTrip == InitEnum /\ [][NextTrip]_vars

\* ----------------------------------------------------------------- claims
Found(e) == [enum |-> e, exists |-> TRUE]

\* C1: every registered enumerator with a non-empty name, whatever the case
\* of its letters, is what GetByName returns for its name and what
\* GetByValue returns for its value, in every state after its registration.
C1_RegisteredIsFound ==
  \A e \in Values(enumSet) :
    String(e) # "" =>
      /\ GetByName(enumSet, String(e)) = {Found(e)}
      /\ GetByValue(enumSet, Value(e)) = Found(e)

\* the enumerators of a set that hold the name or the value of enum
SameName(es, enum) == {e \in Values(es) : String(e) = String(enum)}

SameValueOtherName(es, enum) ==
  {e \in Values(es) : Value(e) = Value(enum) /\ String(e) # String(enum)}

C3_IndicesAgree ==
  /\ Range(enumSet.values) = Range(enumSet.byValue)
  /\ \A n \in DOMAIN enumSet.values : String(enumSet.values[n]) = n
  /\ \A v \in DOMAIN enumSet.byValue : Value(enumSet.byValue[v]) = v
  /\ \A e1, e2 \in Values(enumSet) :
       e1 # e2 => String(e1) # String(e2) /\ Value(e1) # Value(e2)

\* an Override load that replaced an entry of a set holding two, and a
\* load that ended in a rejected registration
C3_Witness ==
  /\ last.op = "LoadFromSlice"
  /\ options.DuplicateHandling = "DuplicateOverride"
  /\ last.panic # "none"
  /\ Cardinality(Values(enumSet)) >= 1
  /\ \E n \in DOMAIN last.pre.values \cap DOMAIN enumSet.values :
       last.pre.values[n] # enumSet.values[n]

\* ---------------------------------------------------- claims on the loader
IsLoad(op, policy) == last.op = op /\ options.DuplicateHandling = policy

\* the enumerator the loader builds from a definition handed to LoadFromSlice
EnumOf(def) == NewEnumBase(def.value, def.name, def.description, def.aliases)

\* the checks 1 to 3 of the documented validation order
EmptyName(def) == ~options.AllowEmptyNames /\ def.name = ""

NullValue(def) == ~options.AllowEmptyValues /\ def.value = Nil

TypeMismatch(def) ==
  options.ValueType # "none" /\ def.value # Nil /\ def.value.t # options.ValueType

Invalid(def) == EmptyName(def) \/ NullValue(def) \/ TypeMismatch(def)

AllValid(defs) == \A i \in DOMAIN defs : ~Invalid(defs[i])

\* the first and the last definition of defs that carry the name n
FirstWith(defs, n) ==
  CHOOSE i \in DOMAIN defs :
    defs[i].name = n /\ \A j \in 1..(i - 1) : defs[j].name # n

LastWith(defs, n) ==
  CHOOSE i \in DOMAIN defs :
    defs[i].name = n /\ \A j \in (i + 1)..Len(defs) : defs[j].name # n

\* definition i of the call carries a name that is registered when the
\* loader comes to it
NameRegisteredAt(i) ==
  \/ last.defs[i].name \in DOMAIN last.pre.values
  \/ \E j \in 1..(i - 1) : last.defs[j].name = last.defs[i].name

\* C4: under DuplicateError a load returns the duplicate error only for a
\* definition whose name or value the set holds at that moment, and a
\* non-empty batch of valid definitions with pairwise distinct names and
\* values, none of them in the set, loads and registers every definition.
C4_ErrorOnlyOnDuplicate ==
  IsLoad("LoadFromSlice", "DuplicateError") =>
    /\ last.err = "duplicate enum found" =>
         \E e \in Values(enumSet) :
           \/ String(e) = last.defs[last.idx].name
           \/ Value(e) = last.defs[last.idx].value
    /\ ( /\ Len(last.defs) > 0
         /\ AllValid(last.defs)
         /\ \A i, j \in DOMAIN last.defs :
              i # j => /\ last.defs[i].name # last.defs[j].name
                       /\ last.defs[i].value # last.defs[j].value
         /\ \A i \in DOMAIN last.defs :
              /\ last.defs[i].name \notin DOMAIN last.pre.values
              /\ last.defs[i].value \notin DOMAIN last.pre.byValue )
       => /\ last.err = "nil"
          /\ last.panic = "none"
          /\ \A i \in DOMAIN last.defs : EnumOf(last.defs[i]) \in Values(enumSet)

\* C5: under DuplicateSkip a LoadFromSlice call of valid definitions returns
\* success, keeps for every name the set already knew what GetByName
\* returned for it, and gives every new name the value of the first
\* definition that carried it.
C5_SkipFirstWins ==
  (IsLoad("LoadFromSlice", "DuplicateSkip") /\ AllValid(last.defs)
   /\ last.panic = "none") =>
    /\ last.err = "nil"
    /\ \A n \in Names :
         (\E g \in GetByName(last.pre, n) : g.exists) =>
           GetByName(enumSet, n) = GetByName(last.pre, n)
    /\ \A i \in DOMAIN last.defs :
         LET n == last.defs[i].name
         IN n \notin DOMAIN last.pre.values =>
              \A g \in GetByName(enumSet, n) :
                g.exists /\ Value(g.enum) = last.defs[FirstWith(last.defs, n)].value

\* C6: under DuplicateOverride a LoadFromSlice call of valid definitions
\* that meets a registered name succeeds; afterwards GetByName of that name
\* returns the enumerator of the last definition that carried it, the set
\* holds one enumerator of that name, and the enumerator it replaced is not
\* what GetByValue returns for the old value.
C6_OverrideLastWins ==
  (IsLoad("LoadFromSlice", "DuplicateOverride") /\ AllValid(last.defs)
   /\ \E i \in DOMAIN last.defs : NameRegisteredAt(i)) =>
    /\ last.err = "nil"
    /\ last.panic = "none"
    /\ \A i \in DOMAIN last.defs :
         NameRegisteredAt(i) =>
           LET n == last.defs[i].name
               new == EnumOf(last.defs[LastWith(last.defs, n)])
           IN /\ GetByName(enumSet, n) = {Found(new)}
              /\ Cardinality(SameName(enumSet, new)) = 1
              /\ \A old \in SameName(last.pre, new) :
                   old # new => GetByValue(enumSet, Value(old)) # Found(old)

\* C7: a load call does not end in a panic at a definition whose value the
\* set holds under another name: the policy resolves it (Skip discards the
\* definition and the call succeeds, Error returns the duplicate error).
C7_ValueDuplicateResolved ==
  (last.op = "LoadFromSlice" /\ last.idx > 0
   /\ SameValueOtherName(enumSet, EnumOf(last.defs[last.idx])) # {}) =>
    /\ last.panic = "none"
    /\ options.DuplicateHandling = "DuplicateSkip" => last.err = "nil"
    /\ options.DuplicateHandling = "DuplicateError" =>
         last.err = "duplicate enum found"

\* the error the documented order of checks gives a definition that the
\* load call stopped at with an error
C8_FirstFailingCheck(def) ==
  IF EmptyName(def) THEN "enum name cannot be empty"
  ELSE IF NullValue(def) THEN "enum value cannot be nil"
  ELSE IF TypeMismatch(def)
    THEN "enum value type is not assignable to expected type"
  ELSE "duplicate enum found"

\* C8: a load call that returns an error returns the error of the first
\* failing check (empty name, null value, type mismatch, duplicate) of the
\* definition it stopped at, and every definition before that one passed
\* the three validation checks; a call that returns no error met no
\* definition that fails one of them.
C8_ValidationOrder ==
  last.op = "LoadFromSlice" =>
    /\ last.err # "nil" =>
         /\ last.idx \in DOMAIN last.defs
         /\ last.err = C8_FirstFailingCheck(last.defs[last.idx])
    /\ \A j \in DOMAIN last.defs :
         (last.idx = 0 \/ j < last.idx) => ~Invalid(last.defs[j])
    /\ (last.err = "nil" /\ last.idx > 0) => ~Invalid(last.defs[last.idx])

\* a batch whose first definition has an empty name and a null value and
\* whose second has a null value, failing with the empty-name error
C8_Witness ==
  /\ last.op = "LoadFromSlice"
  /\ Len(last.defs) = 2
  /\ last.defs[1].name = "" /\ last.defs[1].value = Nil
  /\ last.defs[2].value = Nil
  /\ ~options.AllowEmptyValues
  /\ last.err = "enum name cannot be empty"

\* C9 as claimed: under DuplicateSkip a definition that fails validation is
\* dropped alone: the call returns no error and registers the name of every
\* valid definition of the batch.
C9_SkipDropsInvalidAlone ==
  (IsLoad("LoadFromSlice", "DuplicateSkip") /\ last.panic = "none") =>
    /\ last.err = "nil"
    /\ \A i \in DOMAIN last.defs :
         ~Invalid(last.defs[i]) => last.defs[i].name \in DOMAIN enumSet.values

\* the names the set knew before the call or met in definitions 1..i
NamesUpTo(i) ==
  DOMAIN last.pre.values \cup {last.defs[j].name : j \in 1..i}

\* the first definition of the call that fails validation
FirstInvalid ==
  CHOOSE i \in DOMAIN last.defs :
    Invalid(last.defs[i]) /\ \A j \in 1..(i - 1) : ~Invalid(last.defs[j])

\* C9 amended: under every policy, DuplicateSkip included, a load call never
\* gets past the first definition that fails validation: it ends at that
\* definition with the validation error, or earlier, and no definition from
\* there on is registered.
C9_InvalidAbortsUnderEveryPolicy ==
  (last.op = "LoadFromSlice" /\ \E i \in DOMAIN last.defs : Invalid(last.defs[i])) =>
    /\ last.idx \in 1..FirstInvalid
    /\ last.idx = FirstInvalid =>
         /\ last.err = C8_FirstFailingCheck(last.defs[last.idx])
         /\ last.panic = "none"
    /\ DOMAIN enumSet.values \subseteq NamesUpTo(last.idx - 1)

\* a Skip load stopped by an invalid definition that a valid definition of
\* a new name follows
C9_Witness ==
  /\ IsLoad("LoadFromSlice", "DuplicateSkip")
  /\ last.idx = 1 /\ Len(last.defs) = 2
  /\ Invalid(last.defs[1])
  /\ ~Invalid(last.defs[2])
  /\ last.defs[2].name \notin NamesUpTo(1)
  /\ last.defs[2].value \notin DOMAIN last.pre.byValue
  /\ last.err # "nil"

\* the enumerator LoadFromReader builds from a decoded definition
ReaderEnumOf(def) ==
  NewEnumBase(IF def.value.t = "float64" THEN IntOfFloat(def.value) ELSE def.value,
              def.name, def.description, def.aliases)

\* the names of the definitions of files 1..k of the directory of the call
NamesOfFiles(k) ==
  UNION {{last.dir.files[f].defs[j].name : j \in DOMAIN last.dir.files[f].defs} :
           f \in 1..k}

\* C10: a load that returns an error keeps what it merged.  LoadFromSlice
\* returning an error at definition i: every definition before i that was
\* merged (under Override the last of its name before i, else the first of
\* a name the set did not know) is registered with its name and value, and
\* every enumerator of another name the set held before is still held.
\* LoadFromDirectory returning an error at file k: the same for the
\* definitions of the files before k, and no name of a later file has come
\* into the set.
C10_NoRollback ==
  /\ (last.op = "LoadFromSlice" /\ last.err # "nil") =>
       /\ \A j \in 1..(last.idx - 1) :
            (IF options.DuplicateHandling = "DuplicateOverride"
               THEN \A k \in (j + 1)..(last.idx - 1) :
                      last.defs[k].name # last.defs[j].name
             ELSE ~NameRegisteredAt(j))
            => EnumOf(last.defs[j]) \in Values(enumSet)
       /\ \A e \in Values(last.pre) :
            String(e) \notin {last.defs[j].name : j \in 1..(last.idx - 1)}
            => e \in Values(enumSet)
  /\ (last.op = "LoadFromDirectory" /\ last.err # "nil" /\ last.file > 0) =>
       /\ \A f \in 1..(last.file - 1) :
            \A j \in DOMAIN last.dir.files[f].defs :
              LET d == last.dir.files[f].defs[j]
              IN ( /\ \A j2 \in DOMAIN last.dir.files[f].defs :
                        j2 > j => last.dir.files[f].defs[j2].name # d.name
                   /\ \A f2 \in (f + 1)..(last.file - 1) :
                        \A j2 \in DOMAIN last.dir.files[f2].defs :
                          last.dir.files[f2].defs[j2].name # d.name
                   /\ \A j2 \in 1..(last.idx - 1) :
                        last.dir.files[last.file].defs[j2].name # d.name )
                 => ReaderEnumOf(d) \in Values(enumSet)
       /\ DOMAIN enumSet.values \subseteq
            DOMAIN last.pre.values \cup NamesOfFiles(last.file)

\* a LoadFromSlice call that registered its first definition and returned
\* an error at its second
C10_Witness ==
  /\ last.op = "LoadFromSlice"
  /\ last.err # "nil"
  /\ last.idx = 2
  /\ EnumOf(last.defs[1]) \in Values(enumSet) \ Values(last.pre)

\* ------------------------------------------- claims on the entry points
\* encoding/json writes an int as a number, which a decoder reads back
\* into an interface{} as a float64
JsonOf(value) == IF value.t = "int" THEN FloatV(10 * value.v) ELSE value

JsonOfDefs(defs) == [i \in DOMAIN defs |-> [defs[i] EXCEPT !.value = JsonOf(@)]]

\* the call on record ended as LoadFromSlice(defs) ends from the same set
SameAsSlice(s) ==
  /\ last.err = s.err
  /\ last.panic = s.panic
  /\ enumSet = s.es

\* C11: LoadFromMap of definitions iterated in some order, and
\* LoadFromReader of the text of a sequence of definitions, end as
\* LoadFromSlice of the same sequence ends from the same set: the same
\* error or success, a panic in the one exactly when in the other, and the
\* same registry.
C11_SameOutcome ==
  /\ last.op = "LoadFromMap" =>
       SameAsSlice(LoadFromSlice(last.pre, options, last.defs))
  /\ last.op = "LoadFromReader" =>
       \A defs \in SeqsUpTo(EntryDefs, MaxBatch) :
         last.reader = Json(JsonOfDefs(defs)) =>
           SameAsSlice(LoadFromSlice(last.pre, options, defs))

\* a float64 narrowed to int when, and only when, it is integral
Narrowed(value) ==
  IF value.t = "float64" /\ value.v % 10 = 0 THEN IntV(value.v \div 10) ELSE value

\* C12: a LoadFromReader call that succeeds stores the number of every
\* definition (the last of its name) narrowed to int when it is integral,
\* so that GetByValue of the int finds it, and unchanged when it is not,
\* so that GetByValue of the int does not return it.
C12_NarrowOnlyIntegral ==
  (last.op = "LoadFromReader" /\ last.err = "nil" /\ last.panic = "none") =>
    \A i \in DOMAIN last.reader.defs :
      LET d == last.reader.defs[i]
      IN (d.value.t = "float64" /\ LastWith(last.reader.defs, d.name) = i) =>
           /\ d.name \in DOMAIN enumSet.values
           /\ Value(enumSet.values[d.name]) = Narrowed(d.value)
           /\ d.value.v % 10 = 0 =>
                GetByValue(enumSet, IntV(d.value.v \div 10)) =
                  Found(enumSet.values[d.name])
           /\ d.value.v % 10 # 0 =>
                GetByValue(enumSet, IntV(d.value.v \div 10)) #
                  Found(enumSet.values[d.name])

\* ------------------------------------- claims on the program's EnumBases
\* s and t are equal ignoring letter case
IgnoringCase(s, t) == s = t \/ {s, t} = {"A", "a"}

\* the enumerators of es that have an alias equal to q ignoring case
AliasHolders(es, q) ==
  {e \in Values(es) : \E i \in DOMAIN e.aliases : IgnoringCase(e.aliases[i], q)}

\* q in upper case
UpperOf(q) == IF q = "a" THEN "A" ELSE q

\* C13: GetByName(q) returns found exactly when q in upper case is a key
\* of the name index or an enumerator has an alias equal to q ignoring
\* case; it returns the enumerator under the key when there is one, even if
\* another enumerator has q as alias, else an enumerator that has the
\* alias, else the zero enumerator and not-found, with no error.
C13_GetByName ==
  last.op = "GetByName" =>
    /\ last.out.exists <=>
         (UpperOf(last.arg) \in DOMAIN last.pre.values
          \/ AliasHolders(last.pre, last.arg) # {})
    /\ UpperOf(last.arg) \in DOMAIN last.pre.values =>
         last.out.enum = last.pre.values[UpperOf(last.arg)]
    /\ (last.out.exists /\ UpperOf(last.arg) \notin DOMAIN last.pre.values) =>
         last.out.enum \in AliasHolders(last.pre, last.arg)
    /\ ~last.out.exists => last.out.enum = ZeroEnum
    /\ last.err = "nil" /\ last.panic = "none"
    /\ enumSet = last.pre

\* a lookup of a name that is a key while another enumerator has it as
\* alias, and a lookup that only an alias in the other case answers
C13_Witness ==
  /\ last.op = "GetByName"
  /\ \/ /\ UpperOf(last.arg) \in DOMAIN last.pre.values
        /\ AliasHolders(last.pre, last.arg) \ {last.pre.values[UpperOf(last.arg)]} # {}
     \/ /\ UpperOf(last.arg) \notin DOMAIN last.pre.values
        /\ last.out.exists
        /\ \A i \in DOMAIN last.out.enum.aliases : last.out.enum.aliases[i] # last.arg

\* the calls on an EnumBase or on the registry that holds it
EnumCalls == {"SetJSONConfig", "MarshalJSON", "UnmarshalJSON", "RegisterObj", "GetByName"}

\* C14: no call changes the name or the value of an EnumBase, every
\* registered EnumBase is held under its own name and its own value, and
\* SetJSONConfig changes the name and the value of no lookup result.
C14_IdentityImmutable ==
  /\ last.op \in EnumCalls =>
       \A p \in DOMAIN last.recv :
         /\ String(heap[p].obj) = String(last.recv[p].obj)
         /\ Value(heap[p].obj) = Value(last.recv[p].obj)
  /\ \A n \in DOMAIN enumSet.values : String(enumSet.values[n]) = n
  /\ \A v \in DOMAIN enumSet.byValue : Value(enumSet.byValue[v]) = v
  /\ last.op = "SetJSONConfig" =>
       /\ DOMAIN enumSet.values = DOMAIN last.pre.values
       /\ DOMAIN enumSet.byValue = DOMAIN last.pre.byValue
       /\ \A n \in DOMAIN enumSet.values :
            [enumSet.values[n] EXCEPT !.jsonConfig = "nil"] =
              [last.pre.values[n] EXCEPT !.jsonConfig = "nil"]

\* -------------------------------------------------- claims on the export
\* the (name, value, description, aliases) records of a registry
Records(es) ==
  {[name |-> String(e), value |-> Value(e), description |-> e.description,
    aliases |-> e.aliases] : e \in Values(es)}

\* C15: loading an exported array into a fresh loader under Skip or
\* Override succeeds and gives a registry with the same records, one for
\* every enumerator of the exported registry; the export of an empty
\* registry succeeds and writes the empty array.
C15_ExportRoundTrip ==
  /\ last.op = "Reload" =>
       /\ last.err = "nil"
       /\ last.panic = "none"
       /\ Records(enumSet) = Records(last.pre)
       /\ Cardinality(Values(enumSet)) = Cardinality(Values(last.pre))
  /\ (last.op = "ExportToJSON" /\ Values(enumSet) = {}) =>
       last.err = "nil" /\ last.out = <<>>

\* C16: an export right after a LoadFromSlice call that registered every
\* one of its definitions into an empty registry writes the records in the
\* order of the definitions.
C16_ExportInRegistrationOrder ==
  (last.op = "ExportToJSON" /\ last.pre = NewEnumSet
   /\ Len(last.defs) = Cardinality(Values(enumSet))) =>
    /\ Len(last.out) = Len(last.defs)
    /\ \A i \in DOMAIN last.defs : last.out[i].name = last.defs[i].name

\* ---------------------------------------- claims on the composite enum
\* the argument of the call on record is a *CompositeEnumBase that is not nil
ArgNonNull == last.arg.kind = "*CompositeEnumBase" /\ ~last.arg.ptr.nil

\* the argument is null: an absent interface value or a nil *CompositeEnumBase
ArgNull ==
  last.arg.kind = "nil" \/ (last.arg.kind = "*CompositeEnumBase" /\ last.arg.ptr.nil)

\* the number a set of bit positions stands for
RECURSIVE Num(_)
Num(bits) ==
  IF bits = {} THEN 0
  ELSE 2 ^ (CHOOSE b \in bits : TRUE) + Num(bits \ {CHOOSE b \in bits : TRUE})

\* C17: for a and b not null, a.Or(b), a.And(b) and a.Xor(b) return an
\* enumerator whose Value() has a bit exactly where a or b, a and b, and
\* just one of a and b have it, and a.Not() one that has a bit exactly
\* where a has none, over all Width positions.
C17_BitwiseValues ==
  /\ (last.op \in {"Or", "And", "Xor"} /\ ~last.recv.nil /\ ArgNonNull) =>
       /\ last.panic = "none"
       /\ ~last.out.nil
       /\ CompositeValue(last.out) =
            U64({b \in Bits :
                   LET x == b \in last.recv.flags
                       y == b \in last.arg.ptr.flags
                   IN IF last.op = "Or" THEN x \/ y
                      ELSE IF last.op = "And" THEN x /\ y
                      ELSE x # y})
  /\ (last.op = "Not" /\ ~last.recv.nil) =>
       /\ last.panic = "none"
       /\ ~last.out.nil
       /\ CompositeValue(last.out) = U64({b \in Bits : b \notin last.recv.flags})
       /\ Cardinality(last.out.flags) = Width - Cardinality(last.recv.flags)

\* A.Or(B) is 3 and A.Or(B).And(A) is 1
C17_Witness ==
  /\ last.op = "And"
  /\ last.recv = Or(FlagA, Iface(FlagB)).out
  /\ last.arg = Iface(FlagA)
  /\ Num(last.recv.flags) = 3
  /\ Num(last.out.flags) = 1

\* C18: a.HasFlag(f) does not fail; it returns true exactly when a and f
\* are not null and every bit of f is a bit of a, and false when a or f is
\* null, f being an absent interface value or a nil *CompositeEnumBase.
C18_HasFlag ==
  (last.op = "HasFlag" /\ last.arg.kind # "other") =>
    /\ last.panic = "none"
    /\ last.out <=>
         (~last.recv.nil /\ ArgNonNull
          /\ \A b \in last.arg.ptr.flags : b \in last.recv.flags)

\* C19: Or, And and Xor with a null receiver or a null argument (an absent
\* interface value or a nil *CompositeEnumBase) return the receiver and do
\* not fail; Not on a null receiver returns null.
C19_NullOperands ==
  /\ (last.op \in {"Or", "And", "Xor"} /\ (last.recv.nil \/ ArgNull)) =>
       /\ last.panic = "none"
       /\ last.out = last.recv
       /\ comp = last.recv
  /\ (last.op = "Not" /\ last.recv.nil) =>
       last.panic = "none" /\ last.out = NilComposite

\* C20: NewCompositeEnumBase uses a uint64 as the flags, turns an int n in
\* 0..Width-1 into the bit n alone, and gives no bit for an int outside
\* that range and for a value of another type; every composite enumerator
\* the constructor or Or, And, Xor, Not returns has Value() equal to its
\* flags and holds the flags as the value of its embedded EnumBase.
C20_FlagsFromInput ==
  /\ last.op = "NewCompositeEnumBase" =>
       /\ last.panic = "none"
       /\ ~last.out.nil
       /\ last.out.flags =
            (IF last.arg.t = "uint64" THEN last.arg.v
             ELSE IF last.arg.t = "int" /\ last.arg.v >= 0 /\ last.arg.v <= 63
               THEN {last.arg.v}
             ELSE {})
  /\ (last.op \in {"NewCompositeEnumBase", "Or", "And", "Xor", "Not"}
      /\ last.panic = "none" /\ ~last.out.nil) =>
       /\ CompositeValue(last.out) = U64(last.out.flags)
       /\ Value(last.out.base) = U64(last.out.flags)

\* a constructor call with a bit position past the width
C20_Witness ==
  /\ last.op = "NewCompositeEnumBase"
  /\ last.arg = IntV(64)
  /\ comp.flags = {}
  /\ CompositeValue(comp) = U64({})

\* the glyph of a binary operation
Glyph(op) == IF op = "Or" THEN "|" ELSE IF op = "And" THEN "&" ELSE "^"

Decoding == last.op = "UnmarshalJSON" /\ last.ref # 0

\* the object of the call before it, after it, and the format it had
Before == last.recv[last.ref].obj

After == heap[last.ref].obj

FormatBefore == GetJSONConfig(last.recv, last.ref)

\* C22: an UnmarshalJSON call that returns no error sets, in the name
\* format, the name alone; in the value format, the value alone; in the
\* full format the four fields, to what the record holds (no aliases when
\* it has none); it never changes the format, nor any other object.
C22_DecodeFrame ==
  (Decoding /\ last.err = "nil") =>
    /\ After.jsonConfig = Before.jsonConfig
    /\ \A q \in DOMAIN heap : q # last.ref => heap[q].obj = last.recv[q].obj
    /\ FormatBefore = "JSONFormatName" =>
         /\ last.arg.j = "string" => After.name = last.arg.s
         /\ After.value = Before.value
         /\ After.description = Before.description
         /\ After.aliases = Before.aliases
    /\ FormatBefore = "JSONFormatValue" =>
         /\ After.name = Before.name
         /\ After.description = Before.description
         /\ After.aliases = Before.aliases
    /\ (FormatBefore = "JSONFormatFull" /\ last.arg.j = "object") =>
         /\ After.name = last.arg.name
         /\ After.value = Narrowed(UnmarshalValue(last.arg.value))
         /\ After.description = last.arg.description
         /\ After.aliases = last.arg.aliases

\* a full-format decode of a record without aliases into an object that
\* has an alias, another description and another name
C22_Witness ==
  /\ Decoding /\ last.err = "nil"
  /\ FormatBefore = "JSONFormatFull"
  /\ last.arg.j = "object"
  /\ last.arg.aliases = <<>> /\ Before.aliases # <<>>
  /\ Before.name # last.arg.name
  /\ Before.description # last.arg.description

\* the four fields of an EnumBase
Fields(e) ==
  [name |-> e.name, value |-> e.value, description |-> e.description,
   aliases |-> e.aliases]

\* C23: the text MarshalJSON writes for an enumerator in the full format,
\* decoded by UnmarshalJSON into another enumerator set to the full format,
\* gives that enumerator the name, the value, the description and the
\* aliases of the first.
C23_FullRoundTrip ==
  (/\ last.op = "UnmarshalJSON" /\ last.idx # 0 /\ last.ref # last.idx
   /\ GetJSONConfig(last.recv, last.idx) = "JSONFormatFull"
   /\ FormatBefore = "JSONFormatFull") =>
    /\ last.err = "nil"
    /\ Fields(After) = Fields(last.recv[last.idx].obj)

\* C24: MarshalJSON on a nil *EnumBase writes the JSON string "" and
\* returns no error, whatever SetJSONConfig calls were made on it;
\* UnmarshalJSON on a nil *EnumBase returns the error "cannot unmarshal
\* into nil EnumBase" for every text, malformed text included, and changes
\* nothing.
C24_NilEnumBase ==
  /\ (last.op = "MarshalJSON" /\ last.ref = 0) =>
       last.out = JStr("") /\ last.err = "nil"
  /\ (last.op = "UnmarshalJSON" /\ last.ref = 0) =>
       /\ last.err = "cannot unmarshal into nil EnumBase"
       /\ heap = last.recv /\ enumSet = last.pre

\* malformed text handed to a nil *EnumBase
C24_Witness ==
  last.op = "UnmarshalJSON" /\ last.ref = 0 /\ last.arg = JBad

\* C25: Contains(e) returns true exactly when the name of e is a key of
\* es.values, whatever the value and the description of e and whether or
\* not e itself was registered, and it changes nothing.
C25_ContainsByName ==
  last.op = "Contains" =>
    /\ last.out = (last.enum.name \in DOMAIN enumSet.values)
    /\ enumSet = last.pre

\* an enumerator that was never registered, with the name of a registered
\* one and another value and description, is contained
C25_Witness ==
  /\ last.op = "Contains" /\ last.out
  /\ last.enum.name \in DOMAIN enumSet.values
  /\ enumSet.values[last.enum.name].value # last.enum.value
  /\ enumSet.values[last.enum.name].description # last.enum.description
  /\ last.enum.value \notin DOMAIN enumSet.byValue

\* the definitions the LoadFromSlice call on record has processed: all of
\* them when it ran through, those before the one it returned an error at,
\* those up to the one it panicked at
Processed ==
  IF last.idx = 0 THEN DOMAIN last.defs
  ELSE IF last.err # "nil" THEN 1..(last.idx - 1)
  ELSE 1..last.idx

ProcessedNames == {last.defs[j].name : j \in Processed}

\* C26: under DuplicateOverride, after LoadFromSlice has processed
\* definitions, every enumerator the set held before under a name none of
\* them carries is still in the set, unchanged, and the set has one entry
\* for every name it held before and every name processed (one more for a
\* new name, as many for a replaced one).
C26_OverrideFrame ==
  (last.op = "LoadFromSlice" /\ options.DuplicateHandling = "DuplicateOverride") =>
    /\ \A n \in DOMAIN last.pre.values \ ProcessedNames :
         /\ n \in DOMAIN enumSet.values
         /\ enumSet.values[n] = last.pre.values[n]
    /\ DOMAIN enumSet.values = DOMAIN last.pre.values \cup ProcessedNames

C28_GetByNameDeterministic ==
  last.op = "GetByName" => GetByName(enumSet, last.arg) = {last.out}

\* C29: an UnmarshalJSON call that returns an error (text that is no JSON,
\* or JSON of the wrong shape for the format of the object) leaves the
\* name, the value, the description, the aliases and the format of the
\* object, and every other object, as they were.
C29_FailedDecodeChangesNothing ==
  (Decoding /\ last.err # "nil") =>
    /\ After = Before
    /\ \A q \in DOMAIN heap : heap[q].obj = last.recv[q].obj

\* a number handed to an object in the name format, whose name is not ""
C29_Witness ==
  /\ Decoding /\ last.err = "json: cannot unmarshal"
  /\ FormatBefore = "JSONFormatName"
  /\ last.arg = JNum(15)
  /\ Before.name # ""

\* definition d carries a JSON number that is integral
IntegralNumber(d) == d.value.t = "float64" /\ d.value.v % 10 = 0

\* C30: with ValueType = int, a LoadFromReader call does not get past a
\* definition whose value is an integral JSON number: it ends there (or
\* before) with an error, the type-mismatch error when it ends there and
\* the name is acceptable, and the definition is not registered; with no
\* ValueType, a call that succeeds has stored the definition (the last of
\* its name) with the int value.
C30_TypeCheckedBeforeNarrowing ==
  (last.op = "LoadFromReader" /\ last.reader.kind = "json") =>
    \A i \in DOMAIN last.reader.defs :
      LET d == last.reader.defs[i]
      IN IntegralNumber(d) =>
           /\ options.ValueType = "int" =>
                /\ last.err # "nil" /\ last.panic = "none"
                /\ last.idx \in 1..i
                /\ (last.idx = i /\ (options.AllowEmptyNames \/ d.name # "")) =>
                     last.err = "enum value type is not assignable to expected type"
                /\ (d.name \in DOMAIN enumSet.values) =
                     (d.name \in DOMAIN last.pre.values)
                /\ GetByValue(enumSet, IntV(d.value.v \div 10)) =
                     GetByValue(last.pre, IntV(d.value.v \div 10))
           /\ (/\ options.ValueType = "none"
               /\ last.err = "nil" /\ last.panic = "none"
               /\ LastWith(last.reader.defs, d.name) = i) =>
                /\ d.name \in DOMAIN enumSet.values
                /\ enumSet.values[d.name].value = IntV(d.value.v \div 10)

\* the number 1 under the name A, read with ValueType = int, is rejected
\* with the type-mismatch error
C30_Witness ==
  /\ last.op = "LoadFromReader" /\ options.ValueType = "int"
  /\ last.reader = Json(<<EnumDefinition("A", FloatV(10))>>)
  /\ last.err = "enum value type is not assignable to expected type"
  /\ last.idx = 1
  /\ enumSet = NewEnumSet

====
